---- MODULE Spec2Model ----
(***************************************************************************)
(* Model of CPanelWordPressDeployer (cpanel-wordpress-deployer.py): the    *)
(* remote invoker make_api_request, the step executors built on it, and    *)
(* the two orchestrators deploy_wordpress and                              *)
(* deploy_wordpress_with_elementor, one action per block of the            *)
(* orchestrators' code.                                                    *)
(***************************************************************************)
EXTENDS Integers, Sequences, FiniteSets, TLC

(***************************************************************************)
(* Bounds of the model.                                                    *)
(***************************************************************************)
MaxPlugins == 2
Domains == {"a.com", "b.org"}
Paths == {"/home/u/www"}
PluginNames == {"cf7", "seo"}
ThemeNames == {"astra"}
LicenseKeys == {"KEY"}
LocalZips == {"/tmp/pro.zip"}
LocalKits == {"/tmp/kit.zip"}
KitUrls == {"http://k/kit.zip"}

(***************************************************************************)
(* Python values.  Every value carries its type, so that truthiness and    *)
(* dict.get can be computed as Python computes them.                       *)
(***************************************************************************)
None == [py |-> "None"]
PyBool(b) == [py |-> "bool", val |-> b]
PyInt(n) == [py |-> "int", val |-> n]
PyStr(s) == [py |-> "str", val |-> s]
PyList(s) == [py |-> "list", val |-> s]
PyDict(f) == [py |-> "dict", val |-> f]

\* bool(v): None, False, 0, "", [] and {} are falsy, everything else truthy.
Truthy(v) ==
    CASE v.py = "None" -> FALSE
      [] v.py = "bool" -> v.val
      [] v.py = "int" -> v.val # 0
      [] v.py = "str" -> v.val # ""
      [] v.py = "list" -> v.val # <<>>
      [] v.py = "dict" -> DOMAIN v.val # {}

\* True when d.get(k, ...) raises AttributeError: only dicts have .get.
GetRaises(d) == d.py # "dict"

\* d.get(k, default) of a dict d.
Get(d, k, default) == IF k \in DOMAIN d.val THEN d.val[k] ELSE default

\* r.get("status", 0), the test every orchestrator step applies.
Status(r) == Get(r, "status", PyInt(0))

\* a and b (Python returns one of its operands).
PyAnd(a, b) == IF Truthy(a) THEN b ELSE a

\* a or b.
PyOr(a, b) == IF Truthy(a) THEN a ELSE b

\* {v} in an f-string, v a str or None.
Fmt(v) == IF v = None THEN "None" ELSE v.val

(***************************************************************************)
(* make_api_request: one outbound POST.  Its outcome is either a           *)
(* RequestException of the requests library (a connection error, or the    *)
(* HTTPError raise_for_status raises for a 4xx/5xx response: one except    *)
(* clause handles both, msg is str(e)) or the JSON object of the response, *)
(* which is returned unchanged.                                            *)
(***************************************************************************)
OkBody == PyDict([status |-> PyInt(1), errors |-> None, data |-> PyStr("ok")])
FailBody == PyDict([status |-> PyInt(0), errors |-> PyList(<<"remote">>), data |-> None])
NoStatusBody == PyDict([data |-> PyStr("ok")])

Outcomes ==
    { [kind |-> "exception", msg |-> "RequestException"],
      [kind |-> "json", body |-> OkBody],
      [kind |-> "json", body |-> FailBody],
      [kind |-> "json", body |-> NoStatusBody] }

\* Further outcomes of the POST, for direct calls of make_api_request.  A
\* body that is not JSON makes response.json() raise: an exception that is a
\* RequestException in requests 2.27 and later (JSONDecodeError), and a
\* plain ValueError, which the except clause does not catch, in the earlier
\* releases; the repository pins no release.
ApiOutcomes ==
    Outcomes \cup
    { [kind |-> "exception", msg |-> "HTTPError"],
      [kind |-> "bad_json", msg |-> "JSONDecodeError", caught |-> TRUE],
      [kind |-> "bad_json", msg |-> "ValueError", caught |-> FALSE] }

\* Whether make_api_request raises instead of returning.
make_api_request_raises(o) == o.kind = "bad_json" /\ ~o.caught

\* What make_api_request returns when it returns.
make_api_request(o) ==
    IF o.kind = "json"
    THEN o.body
    ELSE PyDict([status |-> PyInt(0), errors |-> PyList(<<o.msg>>), data |-> None])

\* The (module, function, params) triple of one outbound call.
Call(step, module, function, params) ==
    [step |-> step, module |-> module, function |-> function, params |-> params]

(***************************************************************************)
(* Step executors: the call each one sends.  A composed command is the     *)
(* sequence of the words of its template, the caller's values in place.    *)
(***************************************************************************)
create_database(db_name) ==
    Call("database_creation", "Mysql", "create_database",
         [name |-> db_name, charset |-> "utf8"])

create_db_user(user_name, password) ==
    Call("database_user_creation", "Mysql", "create_user",
         [name |-> user_name, password |-> password])

assign_user_to_db(username, db_name, user_name) ==
    Call("user_privileges", "Mysql", "set_privileges_on_database",
         [database |-> username \o "_" \o db_name,
          user |-> username \o "_" \o user_name,
          privileges |-> "ALL PRIVILEGES"])

download_wordpress(path) ==
    Call("wordpress_download", "Execute", "exec",
         [command |-> <<"cd", path, "&&", "wget", "https://wordpress.org/latest.zip",
                        "&&", "unzip", "latest.zip", "&&", "mv", "wordpress/*", ".",
                        "&&", "rm", "-rf", "wordpress", "latest.zip">>])

\* Outcomes of the GET to the secret-key service: the text of a good
\* response, the text of an error response, or an exception.
SaltOutcomes == {"salts_text", "error_page_text", "exception"}

\* salts as create_wp_config chooses them: the response text whatever the
\* HTTP status, the local random string only when the GET raised.
Salts(s) == IF s = "exception" THEN "local_random_x8" ELSE s

create_wp_config(path, username, db_name, db_user, db_password, s) ==
    Call("wp_config_creation", "Execute", "exec",
         [command |-> <<"cat", ">", path \o "/wp-config.php", "<<", "EOL",
                        username \o "_" \o db_name, username \o "_" \o db_user,
                        db_password, "localhost", Salts(s), "EOL">>])

set_file_permissions(path) ==
    Call("permissions", "Execute", "exec",
         [command |-> <<"find", path, "-type", "d", "-exec", "chmod", "755",
                        "find", path, "-type", "f", "-exec", "chmod", "644",
                        "chmod", "600", path \o "/wp-config.php">>])

run_wp_installation(path, site_url, title, admin_user, admin_password, admin_email) ==
    Call("installation", "Execute", "exec",
         [command |-> <<"cd", path, "&&", "wp", "core", "install",
                        "--url=" \o site_url, "--title=" \o title,
                        "--admin_user=" \o admin_user,
                        "--admin_password=" \o admin_password,
                        "--admin_email=" \o admin_email, "--skip-email">>])

install_elementor(path) ==
    Call("elementor_installation", "Execute", "exec",
         [command |-> <<"cd", path, "&&", "wp", "plugin", "install", "elementor",
                        "--activate">>])

\* Variant of install_elementor_pro_error that only checks the license key.
install_elementor_pro_error_KeyOnly(license_key, pro_zip_path) ==
    IF ~Truthy(license_key)
    THEN PyDict([status |-> PyInt(0),
                 errors |-> PyList(<<"No Elementor Pro license key provided">>)])
    ELSE None

\* The two local checks of install_elementor_pro, made before any call.
install_elementor_pro_error(license_key, pro_zip_path) ==
    IF ~Truthy(license_key)
    THEN PyDict([status |-> PyInt(0),
                 errors |-> PyList(<<"No Elementor Pro license key provided">>)])
    ELSE IF ~Truthy(pro_zip_path)
    THEN PyDict([status |-> PyInt(0),
                 errors |-> PyList(<<"No Elementor Pro zip file path provided">>)])
    ELSE None

install_elementor_pro(path, license_key, pro_zip_path) ==
    Call("elementor_pro_installation", "Execute", "exec",
         [command |-> <<"cd", path, "&&", "wp", "plugin", "install", Fmt(pro_zip_path),
                        "--activate", "&&", "wp", "elementor", "license", "activate",
                        Fmt(license_key)>>])

\* The source import_elementor_kit imports from: the URL when there is one,
\* else the file on the server, else nothing (None).
import_elementor_kit_source(kit_url, kit_file) ==
    IF Truthy(kit_url) THEN kit_url
    ELSE IF Truthy(kit_file) THEN kit_file
    ELSE None

import_elementor_kit_error(kit_url, kit_file) ==
    IF import_elementor_kit_source(kit_url, kit_file) = None
    THEN PyDict([status |-> PyInt(0), errors |-> PyList(<<"No kit URL or file provided">>)])
    ELSE None

\* Variant of import_elementor_kit that always imports the uploaded file.
import_elementor_kit_Uploaded(path, kit_url, kit_file) ==
    Call("kit_import", "Execute", "exec",
         [command |-> <<"cd", path, "&&", "wp", "elementor", "kit", "import",
                        path \o "/wp-content/uploads/elementor-kit.zip", "--yes">>])

import_elementor_kit(path, kit_url, kit_file) ==
    Call("kit_import", "Execute", "exec",
         [command |-> <<"cd", path, "&&", "wp", "elementor", "kit", "import",
                        Fmt(import_elementor_kit_source(kit_url, kit_file)), "--yes">>])

\* Whether the local file of an upload can be read.
FileReads == {TRUE, FALSE}

upload_kit_file_error ==
    PyDict([status |-> PyInt(0), errors |-> PyList(<<"Failed to read local file">>)])

upload_kit_file(local_path, dir, file) ==
    Call("kit_upload", "Fileman", "save_file_content",
         [dir |-> dir, file |-> file, content |-> <<"base64", local_path>>])

upload_elementor_pro_zip_error ==
    PyDict([status |-> PyInt(0), errors |-> PyList(<<"Failed to read Elementor Pro zip">>)])

upload_elementor_pro_zip(local_path, dir, file) ==
    Call("elementor_pro_upload", "Fileman", "save_file_content",
         [dir |-> dir, file |-> file, content |-> <<"base64", local_path>>])

(***************************************************************************)
(* State of one deployment.                                                *)
(*   entry            the orchestrator that was called                     *)
(*   args             its arguments                                        *)
(*   pc               the block of the orchestrator that runs next         *)
(*   results          the report dict (None before it is created)          *)
(*   calls            the outbound calls of make_api_request, in order     *)
(*   executed         the steps whose executor was called, in order, each  *)
(*                    with the CallResult the executor returned            *)
(*   server_pro_path, kit_server_path   locals of the extended pipeline    *)
(***************************************************************************)
VARIABLES entry, args, pc, results, calls, executed, server_pro_path, kit_server_path

vars == <<entry, args, pc, results, calls, executed, server_pro_path, kit_server_path>>

\* Constructor argument username and the arguments no claim varies.
username == "acct"
db_name == "wp"
db_user == "wpuser"
db_password == "dbpw"
site_title == "Site"
admin_user == "admin"
admin_password == "adminpw"
admin_email == "a@b.c"

\* An optional string argument: absent (None), empty, or one of vs.
OptStr(vs) == {None, PyStr("")} \cup {PyStr(v) : v \in vs}

\* An optional local file path argument: absent, or one of vs.
OptPath(vs) == {None} \cup {PyStr(v) : v \in vs}

\* Lists of at most n elements of S.
ListsUpTo(S, n) == UNION {[1..k -> S] : k \in 0..n}

\* The install_plugins argument: absent, or a list of at most MaxPlugins names.
PluginArgs == {None} \cup {PyList(l) : l \in ListsUpTo(PluginNames, MaxPlugins)}

BaseArgs ==
    [domain : Domains, path : Paths,
     install_theme : OptStr(ThemeNames), install_plugins : PluginArgs,
     elementor_pro_key : {None}, elementor_pro_local_path : {None},
     kit_url : {None}, kit_local_path : {None}]

ElementorArgs ==
    [domain : Domains, path : Paths,
     install_theme : {None}, install_plugins : PluginArgs,
     elementor_pro_key : OptStr(LicenseKeys),
     elementor_pro_local_path : OptPath(LocalZips),
     kit_url : OptStr(KitUrls), kit_local_path : OptPath(LocalKits)]

Init ==
    /\ entry \in {"deploy_wordpress", "deploy_wordpress_with_elementor"}
    /\ args \in IF entry = "deploy_wordpress" THEN BaseArgs ELSE ElementorArgs
    /\ pc = "start"
    /\ results = None
    /\ calls = <<>>
    /\ executed = <<>>
    /\ server_pro_path = None
    /\ kit_server_path = None

\* install_plugins as deploy_wordpress receives it: the extended pipeline
\* passes install_plugins or [].
base_install_plugins ==
    IF entry = "deploy_wordpress_with_elementor"
    THEN PyOr(args.install_plugins, PyList(<<>>))
    ELSE args.install_plugins

\* Where control goes when deploy_wordpress returns.
BaseReturn ==
    IF entry = "deploy_wordpress" THEN "returned" ELSE "base_returned"

\* results[field] = r
SetField(field, r) == PyDict([results.val EXCEPT ![field] = r])

\* results[field] = r, r being what the step's executor returned.
Store(field, r) ==
    /\ results' = SetField(field, r)
    /\ executed' = Append(executed, [step |-> field, result |-> r])

\* Variant of AdminUrl without the trailing slash.
AdminUrl_NoSlash(domain) == PyStr("https://" \o domain \o "/wp-admin")

AdminUrl(domain) == PyStr("https://" \o domain \o "/wp-admin/")

BaseFields ==
    {"database_creation", "database_user_creation", "user_privileges",
     "wordpress_download", "wp_config_creation", "permissions", "installation",
     "theme_installation", "plugin_installation"}

\* deploy_wordpress creates the report.
InitResults ==
    /\ pc = "start"
    /\ results' = PyDict([k \in BaseFields \cup {"success", "admin_url"} |->
                            IF k = "success" THEN PyBool(FALSE)
                            ELSE IF k = "admin_url" THEN AdminUrl(args.domain)
                            ELSE None])
    /\ pc' = "database_creation"
    /\ UNCHANGED <<entry, args, calls, executed, server_pro_path, kit_server_path>>

\* Variant of MandatoryStep without the early return.
MandatoryStep_NoHalt(field, call, next) ==
    /\ pc = field
    /\ \E o \in Outcomes :
         /\ Store(field, make_api_request(o))
         /\ calls' = Append(calls, call)
         /\ pc' = next
    /\ UNCHANGED <<entry, args, server_pro_path, kit_server_path>>

\* Variant of MandatoryStep that calls the executor again after an exception.
MandatoryStep_Retry(field, call, next) ==
    /\ pc = field
    /\ \E o \in Outcomes :
         LET r == make_api_request(o) IN
           /\ Store(field, r)
           /\ calls' = Append(calls, call)
           /\ pc' = IF o.kind = "exception" THEN field
                    ELSE IF ~Truthy(Status(r)) THEN BaseReturn ELSE next
    /\ UNCHANGED <<entry, args, server_pro_path, kit_server_path>>

\* One mandatory step: call the executor, store its result, return early
\* when the result's status is falsy.
MandatoryStep(field, call, next) ==
    /\ pc = field
    /\ \E o \in Outcomes :
         LET r == make_api_request(o) IN
           /\ Store(field, r)
           /\ calls' = Append(calls, call)
           /\ pc' = IF ~Truthy(Status(r)) THEN BaseReturn ELSE next
    /\ UNCHANGED <<entry, args, server_pro_path, kit_server_path>>

DatabaseCreation ==
    MandatoryStep("database_creation", create_database(db_name),
                  "database_user_creation")

DatabaseUserCreation ==
    MandatoryStep("database_user_creation", create_db_user(db_user, db_password),
                  "user_privileges")

UserPrivileges ==
    MandatoryStep("user_privileges", assign_user_to_db(username, db_name, db_user),
                  "wordpress_download")

WordpressDownload ==
    MandatoryStep("wordpress_download", download_wordpress(args.path),
                  "wp_config_creation")

WpConfigCreation ==
    \E s \in SaltOutcomes :
      MandatoryStep("wp_config_creation",
                    create_wp_config(args.path, username, db_name, db_user,
                                     db_password, s),
                    "permissions")

Permissions ==
    MandatoryStep("permissions", set_file_permissions(args.path), "installation")

Installation ==
    MandatoryStep("installation",
                  run_wp_installation(args.path, args.domain, site_title, admin_user,
                                      admin_password, admin_email),
                  "theme_installation")

theme_install(path, theme) ==
    Call("theme_installation", "Execute", "exec",
         [command |-> <<"cd", path, "&&", "wp", "theme", "install", theme.val,
                        "--activate">>])

\* Step 8: install the theme if one was specified.
ThemeInstallation ==
    /\ pc = "theme_installation"
    /\ IF Truthy(args.install_theme) /\ Truthy(Status(results.val["installation"]))
       THEN \E o \in Outcomes :
              /\ Store("theme_installation", make_api_request(o))
              /\ calls' = Append(calls, theme_install(args.path, args.install_theme))
       ELSE UNCHANGED <<results, calls, executed>>
    /\ pc' = "plugin_installation"
    /\ UNCHANGED <<entry, args, server_pro_path, kit_server_path>>

\* Variant of plugin_commands that installs only the first plugin.
plugin_commands_FirstOnly(plugins) ==
    IF plugins = <<>> THEN <<>>
    ELSE <<"wp", "plugin", "install", Head(plugins), "--activate">>

RECURSIVE plugin_commands(_)
\* " && ".join("wp plugin install p --activate" for p in plugins)
plugin_commands(plugins) ==
    IF plugins = <<>> THEN <<>>
    ELSE <<"wp", "plugin", "install", Head(plugins), "--activate">>
         \o (IF Tail(plugins) = <<>> THEN <<>> ELSE <<"&&">>)
         \o plugin_commands(Tail(plugins))

plugin_install(path, plugins) ==
    Call("plugin_installation", "Execute", "exec",
         [command |-> <<"cd", path, "&&">> \o plugin_commands(plugins.val)])

\* Variant of PluginInstallation that tests install_plugins is not None.
PluginInstallation_NotNone ==
    /\ pc = "plugin_installation"
    /\ IF base_install_plugins # None /\ Truthy(Status(results.val["installation"]))
       THEN \E o \in Outcomes :
              /\ Store("plugin_installation", make_api_request(o))
              /\ calls' = Append(calls, plugin_install(args.path, base_install_plugins))
       ELSE UNCHANGED <<results, calls, executed>>
    /\ pc' = "base_success"
    /\ UNCHANGED <<entry, args, server_pro_path, kit_server_path>>

\* Step 9: install the plugins, all in one command, if any was specified.
PluginInstallation ==
    /\ pc = "plugin_installation"
    /\ IF Truthy(base_install_plugins) /\ Truthy(Status(results.val["installation"]))
       THEN \E o \in Outcomes :
              /\ Store("plugin_installation", make_api_request(o))
              /\ calls' = Append(calls, plugin_install(args.path, base_install_plugins))
       ELSE UNCHANGED <<results, calls, executed>>
    /\ pc' = "base_success"
    /\ UNCHANGED <<entry, args, server_pro_path, kit_server_path>>

MandatoryFields ==
    <<"database_creation", "database_user_creation", "user_privileges",
      "wordpress_download", "wp_config_creation", "permissions", "installation">>

\* Variant of AllMandatory that also counts the theme and plugin results.
AllMandatory_WithOptional(res) ==
    PyBool(/\ \A i \in 1..Len(MandatoryFields) :
                 Truthy(Status(res.val[MandatoryFields[i]]))
           /\ \A k \in {"theme_installation", "plugin_installation"} :
                 res.val[k] # None => Truthy(Status(res.val[k])))

\* all(r.get("status", 0) for r in the seven mandatory results)
AllMandatory(res) ==
    PyBool(\A i \in 1..Len(MandatoryFields) : Truthy(Status(res.val[MandatoryFields[i]])))

\* deploy_wordpress computes success and returns.
BaseSuccess ==
    /\ pc = "base_success"
    /\ results' = SetField("success", AllMandatory(results))
    /\ pc' = BaseReturn
    /\ UNCHANGED <<entry, args, calls, executed, server_pro_path, kit_server_path>>

ElementorFields ==
    {"elementor_installation", "elementor_pro_upload", "elementor_pro_installation",
     "kit_upload", "kit_import"}

\* Variant of ElementorBaseCheck without the early return.
ElementorBaseCheck_NoEarlyReturn ==
    /\ pc = "base_returned"
    /\ pc' = "elementor_installation"
    /\ results' = PyDict([k \in DOMAIN results.val \cup ElementorFields |->
                            IF k \in ElementorFields THEN None ELSE results.val[k]])
    /\ UNCHANGED <<entry, args, calls, executed, server_pro_path, kit_server_path>>

\* Variant of ElementorBaseCheck that adds the Elementor fields before the
\* early return.
ElementorBaseCheck_UpdateFirst ==
    /\ pc = "base_returned"
    /\ pc' = IF ~Truthy(results.val["success"]) THEN "returned"
             ELSE "elementor_installation"
    /\ results' = PyDict([k \in DOMAIN results.val \cup ElementorFields |->
                            IF k \in ElementorFields THEN None ELSE results.val[k]])
    /\ UNCHANGED <<entry, args, calls, executed, server_pro_path, kit_server_path>>

\* deploy_wordpress has returned to deploy_wordpress_with_elementor: return
\* early if it failed, else add the Elementor fields to the report.
ElementorBaseCheck ==
    /\ pc = "base_returned"
    /\ IF ~Truthy(results.val["success"])
       THEN /\ pc' = "returned"
            /\ UNCHANGED results
       ELSE /\ pc' = "elementor_installation"
            /\ results' = PyDict([k \in DOMAIN results.val \cup ElementorFields |->
                                    IF k \in ElementorFields THEN None
                                    ELSE results.val[k]])
    /\ UNCHANGED <<entry, args, calls, executed, server_pro_path, kit_server_path>>

\* Step 2: install the free Elementor plugin.
ElementorInstallation ==
    /\ pc = "elementor_installation"
    /\ \E o \in Outcomes :
         /\ Store("elementor_installation", make_api_request(o))
         /\ calls' = Append(calls, install_elementor(args.path))
    /\ pc' = "elementor_pro_upload"
    /\ UNCHANGED <<entry, args, server_pro_path, kit_server_path>>

\* Variant of ProSupplied that only tests the package path.
ProSupplied_PathOnly == Truthy(args.elementor_pro_local_path)

\* Whether the Pro branch is taken: elementor_pro_key and elementor_pro_local_path.
ProSupplied == Truthy(PyAnd(args.elementor_pro_key, args.elementor_pro_local_path))

\* Step 3, first half: upload the Pro package if key and package were given.
ElementorProUpload ==
    /\ pc = "elementor_pro_upload"
    /\ IF ProSupplied
       THEN /\ server_pro_path' = PyStr(args.path \o "/wp-content/uploads/elementor-pro.zip")
            /\ \E readable \in FileReads :
                 IF readable
                 THEN \E o \in Outcomes :
                        /\ Store("elementor_pro_upload", make_api_request(o))
                        /\ calls' = Append(calls,
                               upload_elementor_pro_zip(args.elementor_pro_local_path.val,
                                                        args.path \o "/wp-content/uploads",
                                                        "elementor-pro.zip"))
                 ELSE /\ Store("elementor_pro_upload",
                                             upload_elementor_pro_zip_error)
                      /\ UNCHANGED calls
            /\ pc' = "elementor_pro_installation"
       ELSE /\ pc' = "kit_upload"
            /\ UNCHANGED <<results, calls, executed, server_pro_path>>
    /\ UNCHANGED <<entry, args, kit_server_path>>

\* Step 3, second half: install Pro if the upload was successful.
ElementorProInstallation ==
    /\ pc = "elementor_pro_installation"
    /\ IF Truthy(Status(results.val["elementor_pro_upload"]))
       THEN LET err == install_elementor_pro_error(args.elementor_pro_key, server_pro_path) IN
              IF err # None
              THEN /\ Store("elementor_pro_installation", err)
                   /\ UNCHANGED calls
              ELSE \E o \in Outcomes :
                     /\ Store("elementor_pro_installation", make_api_request(o))
                     /\ calls' = Append(calls,
                            install_elementor_pro(args.path, args.elementor_pro_key,
                                                  server_pro_path))
       ELSE UNCHANGED <<results, calls, executed>>
    /\ pc' = "kit_upload"
    /\ UNCHANGED <<entry, args, server_pro_path, kit_server_path>>

\* Variant of KitUpload that stores the upload's result in kit_import.
KitUpload_WrongField ==
    /\ pc = "kit_upload"
    /\ IF Truthy(args.kit_local_path)
       THEN /\ kit_server_path' = PyStr(args.path \o "/wp-content/uploads/elementor-kit.zip")
            /\ \E o \in Outcomes :
                 /\ Store("kit_import", make_api_request(o))
                 /\ calls' = Append(calls,
                        upload_kit_file(args.kit_local_path.val,
                                        args.path \o "/wp-content/uploads",
                                        "elementor-kit.zip"))
       ELSE UNCHANGED <<results, calls, executed, kit_server_path>>
    /\ pc' = "kit_import"
    /\ UNCHANGED <<entry, args, server_pro_path>>

\* Step 4: upload the kit file if a local path was given.
KitUpload ==
    /\ pc = "kit_upload"
    /\ IF Truthy(args.kit_local_path)
       THEN /\ kit_server_path' = PyStr(args.path \o "/wp-content/uploads/elementor-kit.zip")
            /\ \E readable \in FileReads :
                 IF readable
                 THEN \E o \in Outcomes :
                        /\ Store("kit_upload", make_api_request(o))
                        /\ calls' = Append(calls,
                               upload_kit_file(args.kit_local_path.val,
                                               args.path \o "/wp-content/uploads",
                                               "elementor-kit.zip"))
                 ELSE /\ Store("kit_upload", upload_kit_file_error)
                      /\ UNCHANGED calls
       ELSE UNCHANGED <<results, calls, executed, kit_server_path>>
    /\ pc' = "kit_import"
    /\ UNCHANGED <<entry, args, server_pro_path>>

\* Variant of KitImport that imports only after a successful upload.
KitImport_NeedsUpload ==
    /\ pc = "kit_import"
    /\ IF /\ Truthy(PyOr(args.kit_url, kit_server_path))
          /\ Truthy(Status(results.val["elementor_installation"]))
          /\ results.val["kit_upload"] # None => Truthy(Status(results.val["kit_upload"]))
       THEN \E o \in Outcomes :
              /\ Store("kit_import", make_api_request(o))
              /\ calls' = Append(calls,
                     import_elementor_kit(args.path, args.kit_url, kit_server_path))
       ELSE UNCHANGED <<results, calls, executed>>
    /\ pc' = "elementor_success"
    /\ UNCHANGED <<entry, args, server_pro_path, kit_server_path>>

\* Variant of KitImport that sends the import before the kit upload's call.
KitImport_BeforeUpload ==
    /\ pc = "kit_import"
    /\ IF /\ Truthy(PyOr(args.kit_url, kit_server_path))
          /\ Truthy(Status(results.val["elementor_installation"]))
       THEN \E o \in Outcomes :
              /\ Store("kit_import", make_api_request(o))
              /\ calls' = IF calls # <<>> /\ calls[Len(calls)].step = "kit_upload"
                          THEN SubSeq(calls, 1, Len(calls) - 1)
                               \o <<import_elementor_kit(args.path, args.kit_url,
                                                         kit_server_path),
                                    calls[Len(calls)]>>
                          ELSE Append(calls, import_elementor_kit(args.path, args.kit_url,
                                                                  kit_server_path))
       ELSE UNCHANGED <<results, calls, executed>>
    /\ pc' = "elementor_success"
    /\ UNCHANGED <<entry, args, server_pro_path, kit_server_path>>

\* Variant of KitImport that does not test the Elementor install status.
KitImport_IgnoresElementor ==
    /\ pc = "kit_import"
    /\ IF Truthy(PyOr(args.kit_url, kit_server_path))
       THEN \E o \in Outcomes :
              /\ Store("kit_import", make_api_request(o))
              /\ calls' = Append(calls,
                     import_elementor_kit(args.path, args.kit_url, kit_server_path))
       ELSE UNCHANGED <<results, calls, executed>>
    /\ pc' = "elementor_success"
    /\ UNCHANGED <<entry, args, server_pro_path, kit_server_path>>

\* Step 5: import the kit if there is a source and Elementor was installed.
KitImport ==
    /\ pc = "kit_import"
    /\ IF /\ Truthy(PyOr(args.kit_url, kit_server_path))
          /\ Truthy(Status(results.val["elementor_installation"]))
       THEN LET err == import_elementor_kit_error(args.kit_url, kit_server_path) IN
              IF err # None
              THEN /\ Store("kit_import", err)
                   /\ UNCHANGED calls
              ELSE \E o \in Outcomes :
                     /\ Store("kit_import", make_api_request(o))
                     /\ calls' = Append(calls,
                            import_elementor_kit(args.path, args.kit_url, kit_server_path))
       ELSE UNCHANGED <<results, calls, executed>>
    /\ pc' = "elementor_success"
    /\ UNCHANGED <<entry, args, server_pro_path, kit_server_path>>

\* a.get("status", 0) and b.get("status", 0): b is only evaluated when a's
\* status is truthy.
StatusAndRaises(a, b) ==
    GetRaises(a) \/ (Truthy(Status(a)) /\ GetRaises(b))

StatusAnd(a, b) == IF Truthy(Status(a)) THEN Status(b) ELSE Status(a)

\* Whether a kit was to be imported: kit_url or kit_local_path.
KitSupplied == Truthy(PyOr(args.kit_url, args.kit_local_path))

\* Whether the final aggregation raises AttributeError (None has no .get).
ElementorSuccessRaises(res) ==
    \/ ProSupplied /\ StatusAndRaises(res.val["elementor_pro_upload"],
                                      res.val["elementor_pro_installation"])
    \/ KitSupplied /\ IF Truthy(args.kit_local_path)
                      THEN StatusAndRaises(res.val["kit_upload"], res.val["kit_import"])
                      ELSE GetRaises(res.val["kit_import"])

\* Variant of ElementorSuccessValue whose kit part is the import's status alone.
ElementorSuccessValue_ImportOnly(res) ==
    LET e0 == Status(res.val["elementor_installation"])
        e1 == IF ProSupplied
              THEN PyAnd(e0, StatusAnd(res.val["elementor_pro_upload"],
                                       res.val["elementor_pro_installation"]))
              ELSE e0
    IN  IF KitSupplied THEN PyAnd(e1, Status(res.val["kit_import"])) ELSE e1

\* elementor_success as the final aggregation computes it.
ElementorSuccessValue(res) ==
    LET e0 == Status(res.val["elementor_installation"])
        e1 == IF ProSupplied
              THEN PyAnd(e0, StatusAnd(res.val["elementor_pro_upload"],
                                       res.val["elementor_pro_installation"]))
              ELSE e0
    IN  IF KitSupplied
        THEN PyAnd(e1, IF Truthy(args.kit_local_path)
                       THEN StatusAnd(res.val["kit_upload"], res.val["kit_import"])
                       ELSE Status(res.val["kit_import"]))
        ELSE e1

\* The final aggregation: success = success and elementor_success.
ElementorSuccess ==
    /\ pc = "elementor_success"
    /\ IF ElementorSuccessRaises(results)
       THEN /\ pc' = "raised"
            /\ UNCHANGED results
       ELSE /\ pc' = "returned"
            /\ results' = SetField("success",
                                   PyAnd(results.val["success"], ElementorSuccessValue(results)))
    /\ UNCHANGED <<entry, args, calls, executed, server_pro_path, kit_server_path>>

Next ==
    \/ InitResults
    \/ DatabaseCreation
    \/ DatabaseUserCreation
    \/ UserPrivileges
    \/ WordpressDownload
    \/ WpConfigCreation
    \/ Permissions
    \/ Installation
    \/ ThemeInstallation
    \/ PluginInstallation
    \/ BaseSuccess
    \/ ElementorBaseCheck
    \/ ElementorInstallation
    \/ ElementorProUpload
    \/ ElementorProInstallation
    \/ KitUpload
    \/ KitImport
    \/ ElementorSuccess

Spec == Init /\ [][Next]_vars

(***************************************************************************)
(* Direct calls of make_api_request and of the two step executors that     *)
(* check their input: entry is the method called, args its arguments, and  *)
(* results what it returned.                                               *)
(***************************************************************************)
ServerZips == {"/home/u/www/wp-content/uploads/elementor-pro.zip"}
ServerKits == {"/home/u/www/wp-content/uploads/elementor-kit.zip"}

\* The (module, function, params) triples make_api_request is called with.
ApiCalls ==
    UNION {
      { create_database(db_name), create_db_user(db_user, db_password),
        assign_user_to_db(username, db_name, db_user), download_wordpress(p),
        set_file_permissions(p), install_elementor(p) }
      \cup { run_wp_installation(p, d, site_title, admin_user, admin_password,
                                 admin_email) : d \in Domains }
      \cup { theme_install(p, PyStr(t)) : t \in ThemeNames }
      \cup { plugin_install(p, PyList(l)) :
               l \in ListsUpTo(PluginNames, MaxPlugins) \ {<<>>} }
      : p \in Paths }

ExecArgs(e) ==
    CASE e = "make_api_request" -> [call : ApiCalls]
      [] e = "install_elementor_pro" ->
            [path : Paths, license_key : OptStr(LicenseKeys),
             pro_zip_path : OptStr(ServerZips)]
      [] e = "import_elementor_kit" ->
            [path : Paths, kit_url : OptStr(KitUrls), kit_file : OptStr(ServerKits)]

ExecInit ==
    /\ entry \in {"make_api_request", "install_elementor_pro", "import_elementor_kit"}
    /\ args \in ExecArgs(entry)
    /\ pc = "start"
    /\ results = None
    /\ calls = <<>>
    /\ executed = <<>>
    /\ server_pro_path = None
    /\ kit_server_path = None

\* The body of make_api_request: one POST, then return or raise.
ApiRequest(call) ==
    \E o \in ApiOutcomes :
      /\ calls' = Append(calls, call)
      /\ IF make_api_request_raises(o)
         THEN pc' = "raised" /\ UNCHANGED results
         ELSE pc' = "returned" /\ results' = make_api_request(o)

\* A synthetic result returned before any call.
ReturnLocal(r) ==
    /\ results' = r
    /\ pc' = "returned"
    /\ UNCHANGED calls

CallMakeApiRequest ==
    /\ pc = "start"
    /\ entry = "make_api_request"
    /\ ApiRequest(args.call)
    /\ UNCHANGED <<entry, args, executed, server_pro_path, kit_server_path>>

CallInstallElementorPro ==
    /\ pc = "start"
    /\ entry = "install_elementor_pro"
    /\ LET err == install_elementor_pro_error(args.license_key, args.pro_zip_path) IN
         IF err # None
         THEN ReturnLocal(err)
         ELSE ApiRequest(install_elementor_pro(args.path, args.license_key,
                                               args.pro_zip_path))
    /\ UNCHANGED <<entry, args, executed, server_pro_path, kit_server_path>>

CallImportElementorKit ==
    /\ pc = "start"
    /\ entry = "import_elementor_kit"
    /\ LET err == import_elementor_kit_error(args.kit_url, args.kit_file) IN
         IF err # None
         THEN ReturnLocal(err)
         ELSE ApiRequest(import_elementor_kit(args.path, args.kit_url, args.kit_file))
    /\ UNCHANGED <<entry, args, executed, server_pro_path, kit_server_path>>

ExecNext ==
    \/ CallMakeApiRequest
    \/ CallInstallElementorPro
    \/ CallImportElementorKit

ExecSpec == ExecInit /\ [][ExecNext]_vars

(***************************************************************************)
(* Vocabulary of the properties.                                           *)
(***************************************************************************)
Extended == entry = "deploy_wordpress_with_elementor"

\* The steps in pipeline order.
StepOrder ==
    MandatoryFields \o
    <<"theme_installation", "plugin_installation", "elementor_installation",
      "elementor_pro_upload", "elementor_pro_installation", "kit_upload", "kit_import">>

\* The report field of a step (None while there is no such field).
Field(k) ==
    IF results = None THEN None
    ELSE IF k \in DOMAIN results.val THEN results.val[k] ELSE None

Attempted(k) == Field(k) # None

\* The step was attempted and its result's status is truthy.
StatusOk(k) == Attempted(k) /\ Truthy(Status(Field(k)))

\* The step was attempted and its result's status is falsy.
StatusFailed(k) == Attempted(k) /\ ~Truthy(Status(Field(k)))

\* The positions in calls of the outbound calls a step issued.
CallsOf(k) == {i \in 1..Len(calls) : calls[i].step = k}

\* An optional argument was given a usable (non-empty) value.
Supplied(x) == x # None /\ x # PyStr("") /\ x # PyList(<<>>)

Terminated == pc \in {"returned", "raised"}

\* deploy_wordpress has returned (to its caller or to the extended pipeline).
BaseReturned == pc = "base_returned" \/ (~Extended /\ pc = "returned")

\* The positions of deploy_wordpress_with_elementor after deploy_wordpress
\* has returned and the early-return test has been made.
AfterBaseCheck ==
    Extended /\ pc \in {"elementor_installation", "elementor_pro_upload",
                        "elementor_pro_installation", "kit_upload", "kit_import",
                        "elementor_success", "returned", "raised"}

AllMandatoryOk == \A i \in 1..Len(MandatoryFields) : StatusOk(MandatoryFields[i])

\* C1: when a mandatory step's result has a falsy status, no later step is
\* ever called, every later step's report field is still null, no exception
\* is raised and a returned report has success = False.
C1_HaltOnMandatoryFailure ==
    \A i \in 1..Len(MandatoryFields) :
        StatusFailed(MandatoryFields[i]) =>
            /\ \A j \in (i+1)..Len(StepOrder) :
                   ~Attempted(StepOrder[j]) /\ CallsOf(StepOrder[j]) = {}
            /\ pc # "raised"
            /\ pc = "returned" => results.val["success"] = PyBool(FALSE)

C1_Witness ==
    /\ Extended
    /\ pc = "returned"
    /\ StatusFailed("permissions")
    /\ StatusOk("wp_config_creation")

\* C2: neither orchestrator ever raises.
C2_NeverRaises == pc # "raised"

\* The condition C3 gives for a truthy success of the extended pipeline.
C3_Condition ==
    /\ AllMandatoryOk
    /\ StatusOk("elementor_installation")
    /\ (Supplied(args.elementor_pro_key) /\ Supplied(args.elementor_pro_local_path))
          => StatusOk("elementor_pro_upload") /\ StatusOk("elementor_pro_installation")
    /\ (Supplied(args.kit_url) \/ Supplied(args.kit_local_path))
          => /\ Supplied(args.kit_local_path) => StatusOk("kit_upload")
             /\ StatusOk("kit_import")

\* C3: every run of the extended pipeline returns a success that is truthy
\* exactly when C3_Condition holds.
C3_SuccessAggregate ==
    (Extended /\ Terminated) =>
        /\ pc = "returned"
        /\ Truthy(results.val["success"]) <=> C3_Condition

\* C4: the success deploy_wordpress returns is the AND of the statuses of
\* the seven mandatory steps, whatever the theme and plugin steps did.
C4_BaseSuccess ==
    BaseReturned => results.val["success"] = PyBool(AllMandatoryOk)

C4_Witness ==
    /\ ~Extended
    /\ pc = "returned"
    /\ results.val["success"] = PyBool(TRUE)
    /\ StatusFailed("theme_installation")
    /\ StatusFailed("plugin_installation")

\* C5: when the base pipeline failed, the extended pipeline issues no
\* Elementor call, sets no Elementor field, and its next position after the
\* base pipeline is the return of a report with success = False.
C5_SkipElementorOnBaseFailure ==
    Extended =>
        /\ ~AllMandatoryOk =>
               \A k \in ElementorFields : ~Attempted(k) /\ CallsOf(k) = {}
        /\ (AfterBaseCheck /\ ~AllMandatoryOk) =>
               pc = "returned" /\ results.val["success"] = PyBool(FALSE)

C5_Witness ==
    /\ Extended
    /\ pc = "returned"
    /\ StatusFailed("installation")
    /\ Supplied(args.kit_url)
    /\ Supplied(args.elementor_pro_key)
    /\ Supplied(args.elementor_pro_local_path)

\* C6: with Pro key and package supplied and the base pipeline successful, a
\* falsy Pro upload status means the Pro installation is never attempted and
\* the run ends by returning a falsy success.
C6_ProUploadFailure ==
    (/\ Extended
     /\ Supplied(args.elementor_pro_key)
     /\ Supplied(args.elementor_pro_local_path)
     /\ AllMandatoryOk
     /\ StatusFailed("elementor_pro_upload")) =>
        /\ ~Attempted("elementor_pro_installation")
        /\ CallsOf("elementor_pro_installation") = {}
        /\ Terminated => pc = "returned" /\ ~Truthy(results.val["success"])

\* C7: kit import is attempted only after a free Elementor install with a
\* truthy status, and with a kit source supplied and such an install it is
\* attempted whatever happened to Pro.
C7_KitImportGuard ==
    /\ (Attempted("kit_import") \/ CallsOf("kit_import") # {})
          => StatusOk("elementor_installation")
    /\ (/\ Extended
        /\ pc \in {"elementor_success", "returned", "raised"}
        /\ StatusOk("elementor_installation")
        /\ (Supplied(args.kit_url) \/ Supplied(args.kit_local_path)))
          => Attempted("kit_import")

C7_Witness ==
    /\ pc = "returned"
    /\ Supplied(args.kit_local_path)
    /\ StatusFailed("elementor_pro_upload")
    /\ Attempted("kit_import")

\* C8: with a kit URL and no kit local path, no kit upload is ever made, and
\* once the free Elementor install has succeeded and the kit step is over
\* there is exactly one kit import call, importing the URL.
C8_KitUrlImport ==
    (Extended /\ Supplied(args.kit_url) /\ ~Supplied(args.kit_local_path)) =>
        /\ ~Attempted("kit_upload")
        /\ CallsOf("kit_upload") = {}
        /\ Cardinality(CallsOf("kit_import")) <= 1
        /\ (pc \in {"elementor_success", "returned", "raised"}
            /\ StatusOk("elementor_installation")) =>
               /\ Cardinality(CallsOf("kit_import")) = 1
               /\ \A i \in CallsOf("kit_import") :
                      calls[i].params.command =
                          <<"cd", args.path, "&&", "wp", "elementor", "kit", "import",
                            args.kit_url.val, "--yes">>

C8_Witness ==
    /\ Extended
    /\ pc = "returned"
    /\ Supplied(args.kit_url)
    /\ args.kit_local_path = None
    /\ StatusOk("kit_import")
    /\ Cardinality(CallsOf("kit_import")) = 1

\* C9: from its creation on, the report's admin_url is
\* "https://" + domain + "/wp-admin/" for the domain passed in.
C9_AdminUrl ==
    results # None =>
        results.val["admin_url"] = PyStr("https://" \o args.domain \o "/wp-admin/")

C9_Witness ==
    /\ Extended
    /\ pc = "returned"
    /\ args.domain = "b.org"
    /\ StatusFailed("user_privileges")
    /\ results.val["admin_url"] = PyStr("https://b.org/wp-admin/")

\* C10: when deploy_wordpress returns with all seven mandatory statuses
\* truthy and neither theme nor plugins supplied, success is True, the theme
\* and plugin fields are None and exactly seven calls were issued.
C10_NoOptionalInputs ==
    (/\ BaseReturned
     /\ AllMandatoryOk
     /\ ~Supplied(args.install_theme)
     /\ ~Supplied(args.install_plugins)) =>
        /\ results.val["success"] = PyBool(TRUE)
        /\ Field("theme_installation") = None
        /\ Field("plugin_installation") = None
        /\ Len(calls) = 7
        /\ \A i \in 1..7 : calls[i].step = MandatoryFields[i]

C10_Witness ==
    /\ ~Extended
    /\ pc = "returned"
    /\ AllMandatoryOk
    /\ args.install_theme = PyStr("")
    /\ args.install_plugins = PyList(<<>>)
    /\ Len(calls) = 7

\* The steps whose executor was called.
ExecutedSteps == {executed[i].step : i \in 1..Len(executed)}

\* The plugin names in a command, in the order they appear.
PluginsIn(command) == SelectSeq(command, LAMBDA t : t \in PluginNames)

\* C11: when deploy_wordpress returns with all mandatory steps successful
\* and no theme, theme_installation is None; a non-empty plugin list gives
\* exactly one call, naming every listed plugin in list order, with its
\* result in plugin_installation; an empty or absent list gives no call.
C11_PluginsOneCall ==
    (BaseReturned /\ AllMandatoryOk /\ ~Supplied(args.install_theme)) =>
        /\ Field("theme_installation") = None
        /\ CallsOf("theme_installation") = {}
        /\ IF Supplied(args.install_plugins)
           THEN /\ Cardinality(CallsOf("plugin_installation")) = 1
                /\ Len(calls) = 8
                /\ \A i \in CallsOf("plugin_installation") :
                       /\ calls[i].module = "Execute" /\ calls[i].function = "exec"
                       /\ PluginsIn(calls[i].params.command) = args.install_plugins.val
                /\ Attempted("plugin_installation")
                /\ Cardinality({j \in 1..Len(executed) :
                                  executed[j].step = "plugin_installation"}) = 1
                /\ \A j \in 1..Len(executed) :
                       executed[j].step = "plugin_installation" =>
                           executed[j].result = Field("plugin_installation")
           ELSE /\ CallsOf("plugin_installation") = {}
                /\ Field("plugin_installation") = None

C11_Witness ==
    /\ ~Extended
    /\ pc = "returned"
    /\ AllMandatoryOk
    /\ args.install_theme = None
    /\ args.install_plugins = PyList(<<"seo", "cf7">>)
    /\ Cardinality(CallsOf("plugin_installation")) = 1

\* A failed CallResult as make_api_request builds it: status 0, data None
\* and a list of one error.
IsNormalizedFailure(r) ==
    /\ r.py = "dict"
    /\ DOMAIN r.val = {"status", "errors", "data"}
    /\ ~Truthy(r.val["status"])
    /\ r.val["data"] = None
    /\ r.val["errors"].py = "list"
    /\ Len(r.val["errors"].val) = 1

\* C12: a call of make_api_request never raises and issues exactly one
\* outbound call; what it returns is the JSON object of the response or,
\* for a transport error, an error response or a malformed body, a failed
\* CallResult with status false, data null and one error.
C12_InvokerNeverRaises ==
    (entry = "make_api_request" /\ pc # "start") =>
        /\ pc = "returned"
        /\ calls = <<args.call>>
        /\ results \in {OkBody, FailBody, NoStatusBody} \/ IsNormalizedFailure(results)

\* C13: an executor called with a required input missing returns a failed
\* CallResult with errors, and issues no outbound call.
C13_MissingInput ==
    (/\ pc # "start"
     /\ \/ /\ entry = "install_elementor_pro"
           /\ ~Supplied(args.license_key) \/ ~Supplied(args.pro_zip_path)
        \/ /\ entry = "import_elementor_kit"
           /\ ~Supplied(args.kit_url) /\ ~Supplied(args.kit_file)) =>
        /\ pc = "returned"
        /\ results.py = "dict"
        /\ ~Truthy(Status(results))
        /\ Truthy(Get(results, "errors", None))
        /\ calls = <<>>

C13_Witness ==
    /\ entry = "install_elementor_pro"
    /\ pc = "returned"
    /\ args.license_key = PyStr("KEY")
    /\ args.pro_zip_path = None
    /\ calls = <<>>
    /\ ~Truthy(Status(results))

LaterElementorSteps ==
    {"elementor_pro_upload", "elementor_pro_installation", "kit_upload", "kit_import"}

\* C14: a falsy status of the free Elementor install halts the extended
\* pipeline: none of Pro upload, Pro install, kit upload and kit import is
\* attempted after it.
C14_ElementorMandatory ==
    StatusFailed("elementor_installation") =>
        \A k \in LaterElementorSteps : ~Attempted(k) /\ CallsOf(k) = {}

\* The place of a step in the pipeline order.
IndexOf(k) == CHOOSE i \in 1..Len(StepOrder) : StepOrder[i] = k

\* C15: the calls of one deployment are issued one at a time, each after
\* the previous one has returned its result, and in the pipeline order.
C15_SequentialOrder ==
    /\ \A i \in 1..Len(calls) :
           /\ calls[i].step \in ExecutedSteps
           /\ i > 1 => IndexOf(calls[i-1].step) < IndexOf(calls[i].step)
    /\ Len(calls) <= Len(executed)

C15_Witness ==
    /\ pc = "returned"
    /\ Len(calls) = 13
    /\ calls[12].step = "kit_upload"
    /\ calls[13].step = "kit_import"

\* C16: no step's call is issued twice, and a mandatory step that failed,
\* by a transport error or by a failure the server reported, is the last
\* call of the deployment.
C16_NoRetry ==
    /\ \A i \in 1..Len(StepOrder) : Cardinality(CallsOf(StepOrder[i])) <= 1
    /\ \A i \in 1..Len(MandatoryFields) :
           StatusFailed(MandatoryFields[i]) =>
               /\ pc \in {"base_returned", "returned"}
               /\ Len(calls) = i
               /\ calls[i].step = MandatoryFields[i]

C16_Witness ==
    /\ pc = "returned"
    /\ Field("wordpress_download") =
           PyDict([status |-> PyInt(0), errors |-> PyList(<<"RequestException">>),
                   data |-> None])
    /\ Len(calls) = 4

\* The steps that have a field in the report.
Steps == {StepOrder[i] : i \in 1..Len(StepOrder)}

\* C17: a step's field is None exactly while its executor has not been
\* called, holds what that call returned once it has been, and is never
\* changed after it was set.
C17_FieldIffExecuted ==
    [][\A k \in Steps :
          /\ Attempted(k)' <=> k \in ExecutedSteps'
          /\ \A j \in 1..Len(executed') :
                 executed'[j].step = k => Field(k)' = executed'[j].result
          /\ Attempted(k) => Field(k)' = Field(k)]_vars

C17_Witness ==
    /\ pc = "returned"
    /\ "kit_upload" \in ExecutedSteps
    /\ Field("kit_upload") = upload_kit_file_error
    /\ Attempted("kit_import")
    /\ ~Attempted("elementor_pro_upload")

\* The positions after the plugin step of deploy_wordpress.
AfterPluginStep == pc \notin {"start"} \cup BaseFields

\* The positions after the kit import step of the extended pipeline.
AfterKitImport == Extended /\ pc \in {"elementor_success", "returned", "raised"}

\* C18: the failure of an optional step does not halt the pipeline: after a
\* failed theme install the supplied plugins are still installed, after a
\* failed Pro upload or install the supplied kit is still uploaded and
\* imported, and the run ends with a report.
C18_OptionalFailureNoHalt ==
    /\ (AfterPluginStep /\ StatusFailed("theme_installation")
        /\ Supplied(args.install_plugins)) =>
           Attempted("plugin_installation") /\ pc # "raised"
    /\ (/\ AfterKitImport
        /\ StatusFailed("elementor_pro_upload") \/ StatusFailed("elementor_pro_installation")
        /\ Supplied(args.kit_url) \/ Supplied(args.kit_local_path)) =>
           /\ Supplied(args.kit_local_path) => Attempted("kit_upload")
           /\ Attempted("kit_import")
           /\ pc # "raised"

\* C19: the config command never carries the text of a failed response of
\* the secret-key service.
C19_SaltsFallback ==
    \A i \in CallsOf("wp_config_creation") :
        \A j \in 1..Len(calls[i].params.command) :
            calls[i].params.command[j] # "error_page_text"

\* The source of the kit import call, the word after "import".
ImportSource(command) == command[8]

\* The server path the kit upload targets.
KitTarget == args.path \o "/wp-content/uploads/elementor-kit.zip"

\* What C20 says up to the source of the import.
C20_ImportDespiteUpload(source) ==
    (AfterKitImport /\ Supplied(args.kit_local_path)
     /\ StatusOk("elementor_installation")) =>
        /\ Attempted("kit_upload")
        /\ Attempted("kit_import")
        /\ Cardinality(CallsOf("kit_import")) = 1
        /\ \A i \in CallsOf("kit_import") : ImportSource(calls[i].params.command) = source
        /\ StatusFailed("kit_upload") =>
               /\ pc # "raised"
               /\ pc = "returned" => ~Truthy(results.val["success"])

\* C20 as stated: with a kit local path and a successful Elementor install
\* the kit import is called whatever the upload's status, against the server
\* path the upload targeted, and a failed upload makes success falsy.
C20_ImportAgainstUpload == C20_ImportDespiteUpload(KitTarget)

\* C20 as amended: the import is called against the kit URL when one was
\* supplied too, and against the upload's server path otherwise.
C20_ImportAgainstUrlOrUpload ==
    C20_ImportDespiteUpload(IF Supplied(args.kit_url) THEN args.kit_url.val ELSE KitTarget)

C20_Witness ==
    /\ Extended
    /\ pc = "returned"
    /\ args.kit_url = None
    /\ StatusFailed("kit_upload")
    /\ Cardinality(CallsOf("kit_import")) = 1
    /\ ~Truthy(results.val["success"])

\* Exactly one of the Pro license key and the Pro package path was supplied.
ExactlyOnePro ==
    Supplied(args.elementor_pro_key) # Supplied(args.elementor_pro_local_path)

\* The kit part of the final aggregate: with a kit supplied, the import's
\* status, and the upload's too when a local path was supplied.
KitPartOk ==
    (Supplied(args.kit_url) \/ Supplied(args.kit_local_path)) =>
        /\ Supplied(args.kit_local_path) => StatusOk("kit_upload")
        /\ StatusOk("kit_import")

\* C21: with exactly one of the Pro key and the Pro package path supplied,
\* neither Pro step is ever executed (no call, no result, both fields null),
\* a returned success is decided by the base steps, the free Elementor
\* install and the kit alone, and an exception never comes from the Pro part
\* of the aggregation.
C21_OneProInputSkipsPro ==
    (Extended /\ ExactlyOnePro) =>
        /\ \A k \in {"elementor_pro_upload", "elementor_pro_installation"} :
               /\ ~Attempted(k)
               /\ CallsOf(k) = {}
               /\ k \notin ExecutedSteps
        /\ pc = "returned" =>
               (Truthy(results.val["success"]) <=>
                    AllMandatoryOk /\ StatusOk("elementor_installation") /\ KitPartOk)
        /\ pc = "raised" => ~Attempted("kit_import")

C21_Witness ==
    /\ Extended
    /\ pc = "returned"
    /\ args.elementor_pro_key = None
    /\ Supplied(args.elementor_pro_local_path)
    /\ StatusOk("kit_import")
    /\ results.val["success"] = PyInt(1)

\* Both a kit URL and a kit local path were supplied.
BothKitSources == Supplied(args.kit_url) /\ Supplied(args.kit_local_path)

\* C22: with a kit URL and a kit local path both supplied and the free
\* Elementor install successful, the upload executor is still run on the
\* local file (its one call, when the file could be read, carries that
\* file), there is exactly one kit import call, it imports the URL and
\* nowhere names the uploaded file, and a returned success is truthy only
\* with both the upload's and the import's status truthy.
C22_UrlAndLocalKit ==
    (AfterKitImport /\ BothKitSources /\ StatusOk("elementor_installation")) =>
        /\ "kit_upload" \in ExecutedSteps
        /\ Attempted("kit_upload")
        /\ Field("kit_upload") # upload_kit_file_error =>
               /\ Cardinality(CallsOf("kit_upload")) = 1
               /\ \A i \in CallsOf("kit_upload") :
                      calls[i].params.content = <<"base64", args.kit_local_path.val>>
        /\ Cardinality(CallsOf("kit_import")) = 1
        /\ \A i \in CallsOf("kit_import") :
               /\ ImportSource(calls[i].params.command) = args.kit_url.val
               /\ \A j \in 1..Len(calls[i].params.command) :
                      calls[i].params.command[j] # KitTarget
        /\ (pc = "returned" /\ Truthy(results.val["success"])) =>
               StatusOk("kit_upload") /\ StatusOk("kit_import")

C22_Witness ==
    /\ Extended
    /\ pc = "returned"
    /\ BothKitSources
    /\ StatusOk("elementor_installation")
    /\ StatusFailed("kit_upload")
    /\ CallsOf("kit_upload") # {}
    /\ StatusOk("kit_import")
    /\ ~Truthy(results.val["success"])

\* The step's result is a response object that carries no status field.
NoStatus(k) == Attempted(k) /\ "status" \notin DOMAIN Field(k).val

\* C23: a result without a status field acts as a failed one: on a
\* mandatory step no later step is ever executed and the report returned
\* has success = False; on a step of the Elementor chain (the free install,
\* the Pro upload and install, the kit upload and import) the run ends by
\* returning a falsy success.
C23_NoStatusIsFailure ==
    /\ \A i \in 1..Len(MandatoryFields) :
           NoStatus(MandatoryFields[i]) =>
               /\ \A j \in (i+1)..Len(StepOrder) :
                      /\ ~Attempted(StepOrder[j])
                      /\ StepOrder[j] \notin ExecutedSteps
               /\ pc # "raised"
               /\ pc = "returned" => results.val["success"] = PyBool(FALSE)
    /\ \A k \in ElementorFields :
           (NoStatus(k) /\ Terminated) =>
               pc = "returned" /\ ~Truthy(results.val["success"])

\* The keys of the report.
ReportKeys == IF results = None THEN {} ELSE DOMAIN results.val

\* C24: the report of the extended pipeline has either all five Elementor
\* keys or none of them; a returned report has them exactly when the base
\* pipeline succeeded (all seven mandatory statuses truthy, which is the
\* base success by C4), and the report of a failed base pipeline has none
\* of the keys, not the keys with value None.
C24_ElementorKeys ==
    Extended =>
        /\ ElementorFields \subseteq ReportKeys \/ ElementorFields \cap ReportKeys = {}
        /\ ElementorFields \subseteq ReportKeys => AllMandatoryOk
        /\ pc = "returned" =>
               IF AllMandatoryOk
               THEN ElementorFields \subseteq ReportKeys
               ELSE ElementorFields \cap ReportKeys = {}

C24_Witness ==
    /\ Extended
    /\ pc = "returned"
    /\ StatusFailed("installation")
    /\ results.val["success"] = PyBool(FALSE)
    /\ ElementorFields \cap ReportKeys = {}
    /\ "plugin_installation" \in ReportKeys

====
